---- MODULE Spec2Model ----
(***************************************************************************)
(* Model of multi_agent_orchestrator/agents/agent.py: the Agent base       *)
(* class (construction, key normalisation, debug tracing), the option and  *)
(* response records, and the streaming contract of process_request.        *)
(*                                                                         *)
(* Text is a sequence of Unicode code points, so that the regular          *)
(* expressions, str.lower and the f-strings are computed character by      *)
(* character.                                                              *)
(***************************************************************************)
EXTENDS Integers, Sequences, FiniteSets

VARIABLES
    name_in,    \* argument of a direct generate_key_from_name call
    key,        \* <<k>> once generate_key_from_name(name_in) returned k
    rekey,      \* <<k>> once generate_key_from_name(key) returned k
    options,    \* the AgentOptions handed to Agent.__init__
    agent,      \* the Agent instance (self), or NoAgent
    logged,     \* the lines Logger.info was called with, oldest first
    outcome,    \* what the last call did: operation, arguments, return / raise
    calls,      \* number of method calls made on the agent
    stream,     \* state of the sequence process_request returned
    delivered,  \* AgentStreamResponse fragments the consumer received
    cb_tokens   \* tokens callbacks.on_llm_new_token was called with

vars == <<name_in, key, rekey, options, agent, logged, outcome, calls,
          stream, delivered, cb_tokens>>

-----------------------------------------------------------------------------
(* Bounds of the explored inputs.                                          *)
MaxNameLen == 3
MaxAgentNameLen == 2
MaxCalls == 2
MaxTokens == 3

-----------------------------------------------------------------------------
(* Characters.                                                             *)
HYPHEN == 45
SPACE == 32
NEWLINE == 10
GT == 62

\* "Tech Agent!! 2.0"
TechAgentName == <<84, 101, 99, 104, 32, 65, 103, 101, 110, 116, 33, 33, 32, 50, 46, 48>>
\* "tech-agent-20"
TechAgentKey == <<116, 101, 99, 104, 45, 97, 103, 101, 110, 116, 45, 50, 48>>

\* 'A' 'b' '2' ' ' TAB '-' '!' 'E-acute' NO-BREAK SPACE
NameChars == {65, 98, 50, 32, 9, 45, 33, 201, 160}
\* 'A' ' ' '!' 'E-acute'
AgentNameChars == {65, 32, 33, 201}

RECURSIVE SeqsUpTo(_, _)
SeqsUpTo(S, n) ==
    IF n = 0 THEN {<<>>}
    ELSE LET shorter == SeqsUpTo(S, n - 1)
         IN  shorter \cup {Append(s, c) : s \in shorter, c \in S}

IsAsciiLetter(c) == c \in 65..90 \/ c \in 97..122
IsDigit(c) == c \in 48..57

\* \s of a str pattern: the characters str.isspace() accepts
IsSpace(c) ==
    \/ c \in 9..13
    \/ c \in 28..32
    \/ c \in {133, 160, 5760, 8232, 8233, 8239, 8287, 12288}
    \/ c \in 8192..8202

\* the complement of the class [^a-zA-Z0-9\s-]
KeepCharNoHyphen(c) == IsAsciiLetter(c) \/ IsDigit(c) \/ IsSpace(c)
KeepChar(c) == IsAsciiLetter(c) \/ IsDigit(c) \/ IsSpace(c) \/ c = HYPHEN

\* re.sub(r"[^a-zA-Z0-9\s-]", "", name)
RemoveSpecial(name) == SelectSeq(name, KeepChar)

RECURSIVE DropSpaces(_)
DropSpaces(s) ==
    IF s # <<>> /\ IsSpace(Head(s)) THEN DropSpaces(Tail(s)) ELSE s

\* re.sub(r"\s", "-", key): every whitespace character becomes a hyphen
RECURSIVE SubEachSpace(_)
SubEachSpace(s) ==
    IF s = <<>> THEN <<>>
    ELSE <<IF IsSpace(Head(s)) THEN HYPHEN ELSE Head(s)>> \o SubEachSpace(Tail(s))

\* re.sub(r"\s+", "-", key): leftmost, longest, non-overlapping matches
RECURSIVE SubSpaceRuns(_)
SubSpaceRuns(s) ==
    IF s = <<>> THEN <<>>
    ELSE IF IsSpace(Head(s)) THEN <<HYPHEN>> \o SubSpaceRuns(DropSpaces(Tail(s)))
    ELSE <<Head(s)>> \o SubSpaceRuns(Tail(s))

\* str.lower() on one character of the Basic Latin / Latin-1 blocks
LowerChar(c) ==
    IF c \in 65..90 THEN c + 32
    ELSE IF c \in 192..222 /\ c # 215 THEN c + 32
    ELSE c

NoLower(s) == s
Lower(s) == [i \in 1..Len(s) |-> LowerChar(s[i])]

\* Agent.generate_key_from_name
generate_key_from_name(name) == Lower(SubSpaceRuns(RemoveSpecial(name)))

-----------------------------------------------------------------------------
\* the names generate_key_from_name is called with
KeyNames == SeqsUpTo(NameChars, MaxNameLen) \cup {TechAgentName}

-----------------------------------------------------------------------------
(* Python values: None, bool, int and str, each with its type name.        *)
PyNone == [t |-> "NoneType", v |-> <<>>]
PyBool(b) == [t |-> "bool", v |-> <<IF b THEN 1 ELSE 0>>]
PyInt(n) == [t |-> "int", v |-> <<n>>]
PyStr(s) == [t |-> "str", v |-> s]

\* bool(x), as taken by an if statement
Truthy(x) ==
    CASE x.t = "NoneType" -> FALSE
      [] x.t = "bool" -> x.v[1] # 0
      [] x.t = "int" -> x.v[1] # 0
      [] OTHER -> x.v # <<>>

RECURSIVE Digits(_)
Digits(n) == IF n < 10 THEN <<48 + n>> ELSE Append(Digits(n \div 10), 48 + (n % 10))

\* format(x, ""), as an f-string field {x} renders it
Str(x) ==
    CASE x.t = "NoneType" -> <<78, 111, 110, 101>>
      [] x.t = "bool" -> IF x.v[1] # 0 THEN <<84, 114, 117, 101>>
                         ELSE <<70, 97, 108, 115, 101>>
      [] x.t = "int" -> Digits(x.v[1])
      [] OTHER -> x.v

\* AgentOptions(name, description, save_chat, callbacks, LOG_AGENT_DEBUG_TRACE)
AgentOptions(name, description, save_chat, callbacks, trace) ==
    [name |-> name, description |-> description, save_chat |-> save_chat,
     callbacks |-> callbacks, LOG_AGENT_DEBUG_TRACE |-> trace]

\* the defaults of the AgentOptions fields
DefaultSaveChat == TRUE
DefaultCallbacks == "None"
DefaultTrace == PyBool(FALSE)

NoAgent == [exists |-> FALSE]
NoOutcome ==
    [op |-> "none", raised |-> "none", args |-> <<>>, ret |-> PyNone, emitted |-> <<>>]

\* "d"
SomeDescription == <<100>>

IdleAgent ==
    /\ options = AgentOptions(<<>>, SomeDescription, DefaultSaveChat,
                              DefaultCallbacks, DefaultTrace)
    /\ agent = NoAgent
    /\ logged = <<>>
    /\ outcome = NoOutcome
    /\ calls = 0

IdleStream ==
    /\ stream = "none"
    /\ delivered = <<>>
    /\ cb_tokens = <<>>

-----------------------------------------------------------------------------
(* Direct calls of the static method generate_key_from_name.               *)
InitKey ==
    /\ name_in \in KeyNames
    /\ key = <<>>
    /\ rekey = <<>>
    /\ IdleAgent
    /\ IdleStream

Normalize ==
    /\ key = <<>>
    /\ key' = <<generate_key_from_name(name_in)>>
    /\ UNCHANGED <<name_in, rekey, options, agent, logged, outcome, calls,
                   stream, delivered, cb_tokens>>

Renormalize ==
    /\ key # <<>>
    /\ rekey = <<>>
    /\ rekey' = <<generate_key_from_name(key[1])>>
    /\ UNCHANGED <<name_in, key, options, agent, logged, outcome, calls,
                   stream, delivered, cb_tokens>>

NextKey == Normalize \/ Renormalize

SpecKey == InitKey /\ [][NextKey]_vars

-----------------------------------------------------------------------------
(* The Agent base class.                                                   *)
AgentNames == SeqsUpTo(AgentNameChars, MaxAgentNameLen)

AllOptions ==
    {AgentOptions(n, SomeDescription, sc, cb, tr) :
        n \in AgentNames, sc \in BOOLEAN, cb \in {DefaultCallbacks, "custom_sink"},
        tr \in {DefaultTrace, PyBool(TRUE), PyNone}}

\* options.callbacks if options.callbacks is not None else AgentCallbacks()
CallbacksKeepNone(cb) == cb
CallbacksOrDefault(cb) == IF cb # "None" THEN cb ELSE "AgentCallbacks()"

\* the assignments of Agent.__init__
AgentInitIdIsName(o) ==
    [exists |-> TRUE,
     name |-> o.name,
     id |-> o.name,
     description |-> o.description,
     save_chat |-> o.save_chat,
     callbacks |-> CallbacksOrDefault(o.callbacks),
     log_debug_trace |-> o.LOG_AGENT_DEBUG_TRACE]
AgentInit(o) ==
    [exists |-> TRUE,
     name |-> o.name,
     id |-> generate_key_from_name(o.name),
     description |-> o.description,
     save_chat |-> o.save_chat,
     callbacks |-> CallbacksOrDefault(o.callbacks),
     log_debug_trace |-> o.LOG_AGENT_DEBUG_TRACE]

\* Agent.__init__(options): no validation, never raises
ConstructRejectEmptyName ==
    /\ agent = NoAgent
    /\ outcome.op = "none"
    /\ IF options.name = <<>>
       THEN /\ agent' = agent
            /\ outcome' = [op |-> "__init__", raised |-> "ConfigurationError",
                           args |-> <<>>, ret |-> PyNone, emitted |-> <<>>]
       ELSE /\ agent' = AgentInit(options)
            /\ outcome' = [op |-> "__init__", raised |-> "none", args |-> <<>>,
                           ret |-> PyNone, emitted |-> <<>>]
    /\ UNCHANGED <<name_in, key, rekey, options, logged, calls,
                   stream, delivered, cb_tokens>>
Construct ==
    /\ agent = NoAgent
    /\ outcome.op = "none"
    /\ agent' = AgentInit(options)
    /\ outcome' = [op |-> "__init__", raised |-> "none", args |-> <<>>,
                   ret |-> PyNone, emitted |-> <<>>]
    /\ UNCHANGED <<name_in, key, rekey, options, logged, calls,
                   stream, delivered, cb_tokens>>

\* Agent.is_streaming_enabled: return False
IsStreamingEnabled ==
    /\ agent # NoAgent
    /\ calls < MaxCalls
    /\ calls' = calls + 1
    /\ outcome' = [op |-> "is_streaming_enabled", raised |-> "none", args |-> <<>>,
                   ret |-> PyBool(FALSE), emitted |-> <<>>]
    /\ UNCHANGED <<name_in, key, rekey, options, agent, logged,
                   stream, delivered, cb_tokens>>

\* the body of the abstract Agent.process_request: pass
InputTexts == {<<>>, <<104, 105>>}
ProcessRequest(input_text) ==
    /\ agent # NoAgent
    /\ calls < MaxCalls
    /\ calls' = calls + 1
    /\ outcome' = [op |-> "process_request", raised |-> "none",
                   args |-> <<PyStr(input_text)>>, ret |-> PyNone, emitted |-> <<>>]
    /\ UNCHANGED <<name_in, key, rekey, options, agent, logged,
                   stream, delivered, cb_tokens>>

\* if self.log_debug_trace:
TraceEnabledUnlessFalse(a) == a.log_debug_trace # PyBool(FALSE)
TraceEnabled(a) == Truthy(a.log_debug_trace)

\* prefix = f"> {class_name} \n> {self.name} \n>"
Prefix(a, class_name) ==
    <<GT, SPACE>> \o class_name \o <<SPACE, NEWLINE, GT, SPACE>> \o a.name
        \o <<SPACE, NEWLINE, GT>>

\* f"{prefix} {message} \n> {data}"
LineWithData(a, class_name, message, data) ==
    Prefix(a, class_name) \o <<SPACE>> \o message \o <<SPACE, NEWLINE, GT, SPACE>>
        \o Str(data)

\* f"{prefix} {message} \n>"
LineWithoutData(a, class_name, message) ==
    Prefix(a, class_name) \o <<SPACE>> \o message \o <<SPACE, NEWLINE, GT>>

\* the line log_debug hands to Logger.info
DebugLine(a, class_name, message, data) ==
    IF Truthy(data) THEN LineWithData(a, class_name, message, data)
    ELSE LineWithoutData(a, class_name, message)

\* "C"
ClassNames == {<<67>>}
\* "m", "hi"
Messages == {<<109>>, <<104, 105>>}
\* None, 0, 7, "", "ok", False
DataValues ==
    {PyNone, PyInt(0), PyInt(7), PyStr(<<>>), PyStr(<<111, 107>>), PyBool(FALSE)}

\* Agent.log_debug(class_name, message, data); logger_raises: whether the
\* Logger.info call raises. No try statement surrounds the call.
LogDebug(class_name, message, data, logger_raises) ==
    /\ agent # NoAgent
    /\ calls < MaxCalls
    /\ calls' = calls + 1
    /\ IF TraceEnabled(agent)
       THEN LET line == DebugLine(agent, class_name, message, data)
            IN  /\ logged' = Append(logged, line)
                /\ outcome' = [op |-> "log_debug",
                               raised |-> IF logger_raises THEN "LoggerError"
                                          ELSE "none",
                               args |-> <<PyStr(class_name), PyStr(message), data>>,
                               ret |-> PyNone,
                               emitted |-> <<line>>]
       ELSE /\ logged' = logged
            /\ outcome' = [op |-> "log_debug", raised |-> "none",
                           args |-> <<PyStr(class_name), PyStr(message), data>>,
                           ret |-> PyNone, emitted |-> <<>>]
    /\ UNCHANGED <<name_in, key, rekey, options, agent,
                   stream, delivered, cb_tokens>>

CallLogDebug ==
    \E c \in ClassNames, m \in Messages, d \in DataValues, r \in BOOLEAN :
        LogDebug(c, m, d, r)

CallProcessRequest == \E t \in InputTexts : ProcessRequest(t)

Init ==
    /\ name_in = <<>>
    /\ key = <<>>
    /\ rekey = <<>>
    /\ options \in AllOptions
    /\ agent = NoAgent
    /\ logged = <<>>
    /\ outcome = NoOutcome
    /\ calls = 0
    /\ IdleStream

Next == Construct \/ IsStreamingEnabled \/ CallProcessRequest \/ CallLogDebug

Spec == Init /\ [][Next]_vars

-----------------------------------------------------------------------------
(* A streaming-enabled concrete agent: process_request returns a lazy,     *)
(* single-pass sequence of AgentStreamResponse fragments.                  *)

\* AgentStreamResponse(text="", final_message=None)
AgentStreamResponse(text, final_message) ==
    [text |-> text, final_message |-> final_message]

\* a ConversationMessage whose content is the text
ConversationMessage(text) == [t |-> "ConversationMessage", v |-> text]

\* "a", "b" and the empty delta
Tokens == {<<97>>, <<98>>, <<>>}

StreamOptions ==
    {AgentOptions(<<65>>, SomeDescription, DefaultSaveChat, cb, DefaultTrace) :
        cb \in {DefaultCallbacks, "custom_sink"}}

RECURSIVE Concat(_)
Concat(frags) ==
    IF frags = <<>> THEN <<>> ELSE frags[1].text \o Concat(Tail(frags))

\* the override of is_streaming_enabled in a streaming agent
StreamingAgentIsStreamingEnabled == TRUE

\* process_request on a streaming agent: hands back the unstarted sequence
StartStream(input_text) ==
    /\ agent # NoAgent
    /\ StreamingAgentIsStreamingEnabled
    /\ stream = "none"
    /\ stream' = "open"
    /\ calls' = calls + 1
    /\ outcome' = [op |-> "process_request", raised |-> "none",
                   args |-> <<PyStr(input_text)>>, ret |-> PyStr(<<>>),
                   emitted |-> <<>>]
    /\ UNCHANGED <<name_in, key, rekey, options, agent, logged,
                   delivered, cb_tokens>>

\* one incremental unit: notify the callback sink, then yield the fragment
ProduceToken(token) ==
    /\ stream = "open"
    /\ Len(delivered) < MaxTokens
    /\ cb_tokens' = Append(cb_tokens, token)
    /\ delivered' = Append(delivered, AgentStreamResponse(token, PyNone))
    /\ UNCHANGED <<name_in, key, rekey, options, agent, logged, outcome, calls,
                   stream>>

\* a producer that leaves the sequence open after its final fragment
ProduceFinalStayOpen ==
    /\ stream = "open"
    /\ Len(delivered) < MaxTokens
    /\ delivered' = Append(delivered,
                           AgentStreamResponse(<<>>, ConversationMessage(Concat(delivered))))
    /\ UNCHANGED <<name_in, key, rekey, options, agent, logged, outcome, calls,
                   stream, cb_tokens>>
\* the last fragment carries the complete message and ends the sequence
ProduceFinal ==
    /\ stream = "open"
    /\ delivered' = Append(delivered,
                           AgentStreamResponse(<<>>, ConversationMessage(Concat(delivered))))
    /\ stream' = "exhausted"
    /\ UNCHANGED <<name_in, key, rekey, options, agent, logged, outcome, calls,
                   cb_tokens>>

\* the consumer stops driving the sequence before exhaustion
Abandon ==
    /\ stream = "open"
    /\ stream' = "abandoned"
    /\ UNCHANGED <<name_in, key, rekey, options, agent, logged, outcome, calls,
                   delivered, cb_tokens>>

\* the generation collaborator fails: the sequence ends with a ProcessingError
FailStream ==
    /\ stream = "open"
    /\ stream' = "failed"
    /\ outcome' = [op |-> "process_request", raised |-> "ProcessingError",
                   args |-> outcome.args, ret |-> PyNone, emitted |-> <<>>]
    /\ UNCHANGED <<name_in, key, rekey, options, agent, logged, calls,
                   delivered, cb_tokens>>

CallStartStream == \E t \in InputTexts : StartStream(t)

Generate == \E tok \in Tokens : ProduceToken(tok)

InitStream ==
    /\ name_in = <<>>
    /\ key = <<>>
    /\ rekey = <<>>
    /\ options \in StreamOptions
    /\ agent = NoAgent
    /\ logged = <<>>
    /\ outcome = NoOutcome
    /\ calls = 0
    /\ IdleStream

NextStream ==
    Construct \/ CallStartStream \/ Generate \/ ProduceFinal \/ Abandon \/ FailStream

SpecStream == InitStream /\ [][NextStream]_vars

-----------------------------------------------------------------------------
(* C1: generate_key_from_name(n) returns, for every name n, the reference  *)
(* result: the characters of n that are ASCII letters, digits, whitespace  *)
(* or hyphens, with every maximal whitespace run turned into one hyphen,   *)
(* lower-cased; "Tech Agent!! 2.0" gives "tech-agent-20" and "" gives "".  *)
RefIsKeyChar(c) ==
    c \in (65..90) \cup (97..122) \cup (48..57) \cup {HYPHEN} \/ IsSpace(c)

RECURSIVE RefKept(_, _)
\* the kept characters of n[1..i], in order
RefKept(n, i) ==
    IF i = 0 THEN <<>>
    ELSE IF RefIsKeyChar(n[i]) THEN Append(RefKept(n, i - 1), n[i])
    ELSE RefKept(n, i - 1)

RECURSIVE RefCollapse(_, _)
\* k[1..i] with every whitespace character that does not start a run dropped
\* and every run start replaced by a hyphen, lower-cased
RefCollapse(k, i) ==
    IF i = 0 THEN <<>>
    ELSE IF IsSpace(k[i]) /\ i > 1 /\ IsSpace(k[i - 1]) THEN RefCollapse(k, i - 1)
    ELSE IF IsSpace(k[i]) THEN Append(RefCollapse(k, i - 1), HYPHEN)
    ELSE IF k[i] \in 65..90 THEN Append(RefCollapse(k, i - 1), k[i] + 32)
    ELSE Append(RefCollapse(k, i - 1), k[i])

RefKey(n) == LET k == RefKept(n, Len(n)) IN RefCollapse(k, Len(k))

C1_KeyIsReference ==
    key # <<>> =>
        /\ key[1] = RefKey(name_in)
        /\ (name_in = TechAgentName => key[1] = TechAgentKey)
        /\ (name_in = <<>> => key[1] = <<>>)

\* a name with a two-character whitespace run between kept characters
C1_Witness ==
    /\ key # <<>>
    /\ Len(name_in) = 3
    /\ IsSpace(name_in[2]) /\ IsSpace(name_in[3]) /\ ~IsSpace(name_in[1])
    /\ key[1] = <<LowerChar(name_in[1]), HYPHEN>>

(* C2: every character of generate_key_from_name(n) is a lowercase ASCII   *)
(* letter, a digit or a hyphen.                                            *)
C2_KeyAlphabet ==
    key # <<>> =>
        \A i \in 1..Len(key[1]) :
            key[1][i] \in (97..122) \cup (48..57) \cup {HYPHEN}

\* upper case, whitespace and a stripped character all occur in the input
C2_Witness ==
    /\ key # <<>>
    /\ \E i \in 1..Len(name_in) : name_in[i] \in 65..90
    /\ \E i \in 1..Len(name_in) : IsSpace(name_in[i])
    /\ \E i \in 1..Len(name_in) : ~KeepChar(name_in[i])
    /\ Len(key[1]) = 2

(* C3: key normalisation is idempotent:                                    *)
(* generate_key_from_name(generate_key_from_name(n)) equals                *)
(* generate_key_from_name(n).                                              *)
C3_Idempotent ==
    rekey # <<>> => rekey[1] = key[1]

\* the second call ran on a key that differs from the name it came from
C3_Witness ==
    /\ rekey # <<>>
    /\ key[1] # name_in
    /\ key[1] # <<>>
    /\ \E i \in 1..Len(key[1]) : key[1][i] = HYPHEN

-----------------------------------------------------------------------------
Contains(line, sub) ==
    \E i \in 0..(Len(line) - Len(sub)) : SubSeq(line, i + 1, i + Len(sub)) = sub

Constructed == agent # NoAgent

(* C4: with debug tracing disabled (LOG_AGENT_DEBUG_TRACE False or None),  *)
(* no sequence of log_debug and process_request calls ever reaches         *)
(* Logger.info: the agent has forwarded no line.                           *)
C4_QuietWhenDisabled ==
    (Constructed /\ agent.log_debug_trace \in {PyBool(FALSE), PyNone}) =>
        logged = <<>>

\* two calls on an agent whose flag is None, the last one a log_debug with data
C4_Witness ==
    /\ Constructed
    /\ agent.log_debug_trace = PyNone
    /\ calls = 2
    /\ outcome.op = "log_debug"
    /\ Truthy(outcome.args[3])

(* C5 as stated: constructing an agent from options whose name is empty    *)
(* raises ConfigurationError and leaves no agent instance.                 *)
C5_EmptyNameRejected ==
    (outcome.op # "none" /\ options.name = <<>>) =>
        (~Constructed /\ outcome.op = "__init__"
            /\ outcome.raised = "ConfigurationError")

(* C5 amended: constructing an agent from options whose name is empty      *)
(* raises nothing and yields an agent whose name and id are both empty.    *)
C5_EmptyNameAccepted ==
    (outcome.op = "__init__" /\ options.name = <<>>) =>
        /\ outcome.raised = "none"
        /\ Constructed
        /\ agent.name = <<>>
        /\ agent.id = <<>>

C5_Witness ==
    /\ outcome.op = "__init__"
    /\ options.name = <<>>
    /\ Constructed

(* C6 as stated: log_debug never fails its caller; an error raised by      *)
(* Logger.info is swallowed and log_debug returns normally.                *)
C6_LogDebugNeverRaises ==
    outcome.op = "log_debug" => outcome.raised = "none"

(* C7: the fragments of a streaming process_request carry no final_message *)
(* except the last one of an exhausted sequence, which carries it: the     *)
(* final message is delivered exactly once and nothing follows it.         *)
C7_FinalFragmentLast ==
    /\ \A i \in 1..(Len(delivered) - 1) : delivered[i].final_message = PyNone
    /\ stream = "exhausted" =>
          /\ delivered # <<>>
          /\ delivered[Len(delivered)].final_message # PyNone
    /\ stream # "exhausted" =>
          \A i \in 1..Len(delivered) : delivered[i].final_message = PyNone

\* a sequence driven to completion after two text fragments
C7_Witness ==
    /\ stream = "exhausted"
    /\ Len(delivered) = 3
    /\ delivered[1].text # <<>>
    /\ delivered[3].final_message = ConversationMessage(delivered[1].text \o delivered[2].text)

(* C8: the agent mirrors its options for its whole lifetime: id is the     *)
(* normalised name, name, description and save_chat are the configured     *)
(* values, callbacks is the configured sink or a default AgentCallbacks    *)
(* (never None), and no operation changes the agent once constructed.      *)
C8_MirrorsOptionsState ==
    Constructed =>
        /\ agent.id = generate_key_from_name(options.name)
        /\ agent.name = options.name
        /\ agent.description = options.description
        /\ agent.save_chat = options.save_chat
        /\ agent.callbacks # "None"
        /\ agent.callbacks =
              (IF options.callbacks = "None" THEN "AgentCallbacks()"
               ELSE options.callbacks)

C8_MirrorsOptions ==
    /\ []C8_MirrorsOptionsState
    /\ [][Constructed => UNCHANGED <<agent, options>>]_vars

\* no sink configured, and a log_debug that did log has run
C8_Witness ==
    /\ Constructed
    /\ options.callbacks = "None"
    /\ agent.id # agent.name
    /\ outcome.op = "log_debug"
    /\ logged # <<>>

(* C9 as stated: the id of every constructed agent is non-empty.           *)
C9_IdNeverEmpty ==
    Constructed => agent.id # <<>>

(* C9 amended: the id of a constructed agent is empty exactly when its     *)
(* name holds no ASCII letter, digit, whitespace or hyphen; every other    *)
(* name yields a non-empty id.                                             *)
C9_IdEmptyIffNoKeyChar ==
    Constructed =>
        (agent.id = <<>> <=>
            \A i \in 1..Len(agent.name) : ~RefIsKeyChar(agent.name[i]))

\* a punctuation-only / non-ASCII name gave an empty id
C9_Witness ==
    /\ Constructed
    /\ agent.name # <<>>
    /\ agent.id = <<>>

(* C10 as stated: with tracing enabled, every log_debug call forwards      *)
(* exactly one line that names the component, the agent's name and the     *)
(* message, and contains the data whenever a data value was passed.        *)
C10_LineCarriesData ==
    (outcome.op = "log_debug" /\ Truthy(agent.log_debug_trace)) =>
        /\ Len(outcome.emitted) = 1
        /\ Contains(outcome.emitted[1], outcome.args[1].v)
        /\ Contains(outcome.emitted[1], agent.name)
        /\ Contains(outcome.emitted[1], outcome.args[2].v)
        /\ (outcome.args[3] # PyNone =>
                Contains(outcome.emitted[1], Str(outcome.args[3])))

====
